---- MODULE Spec2Model ----
(***************************************************************************)
(* State-machine model of package future (src/future/future.go).           *)
(*                                                                         *)
(* A Future[T] is a record of plain fields (ctx, val, err, state) and an   *)
(* unbuffered channel stateCh.  New starts one goroutine that calls the    *)
(* task function, writes err or val, then state, then performs ONE send    *)
(* on stateCh.  TryGet reads state twice without synchronisation (lines    *)
(* 60 and 63) and otherwise selects on stateCh and ctx.Done().             *)
(*                                                                         *)
(* Every access to a shared field and every channel operation of the       *)
(* source is one step of the model, so that all interleavings of the       *)
(* goroutines are explored.  The send on an unbuffered channel and its     *)
(* receive are one joint step of the two goroutines.                       *)
(*                                                                         *)
(* The reads of lines 60-65 are not synchronised with the writes of lines  *)
(* 48-52.  Each of these accesses is a step of its own, so a read finds    *)
(* the field as it is before or after the write it races with; the         *)
(* accesses of one goroutine take effect in the order of the program, as   *)
(* they do in the amd64 build (total store order; the goroutine of New     *)
(* reads no shared field after its writes).                                *)
(*                                                                         *)
(* The specifications share the state and the steps:                       *)
(*   Spec      futures built by Ok, Err and New, read by the application   *)
(*   SpecComb  the same plus Map, MapErr, FlatMap and FlatMapErr           *)
(*   SpecAll   futures built by Ok, Err and New, read by one call of All   *)
(*             and by the application                                      *)
(*   SpecConv  futures read through GetOr, GetElse and MustGet             *)
(*   SpecIter  one call of IterPar, whose futures only All reads           *)
(***************************************************************************)
EXTENDS Integers, Sequences, FiniteSets

\* ---------------------------------------------------------------- bounds
MaxFut == 3        \* futures that can be constructed in one run of SpecComb
CoreFut == 1       \* futures that can be constructed in one run of Spec
NumReaders == 2    \* TryGet calls made by goroutines of the application
MaxAll == 2        \* length of the list given to All, and futures of SpecAll

\* ------------------------------------------------- constants of the source
StatePending == 0
StateDone == 1
StateError == 2

\* Error values.  The non-nil error that the task function of future f
\* returns, or that Err is given for f, is ErrOf(f): distinct futures have
\* distinct errors, so an error found anywhere names the future it comes
\* from.  Err takes any error value, the nil error included.
Nil == <<"nil", 0>>             \* the nil error
Canceled == <<"canceled", 0>>   \* ctx.Err() of a cancelled context
Mapped == <<"mapped", 0>>       \* the non-nil error a MapErr transform returns
ErrOf(f) == <<"task", f>>

\* Values.  T is a type parameter and no function of the package inspects a
\* value, so one value per future stands for all: the task function of f,
\* or Ok for f, produces ValOf(f).  Zero is the zero value (var defaultT T).
Zero == 0
ValOf(f) == f

Background == "bg"              \* context.Background(): never cancelled
Ctxs == {"bg", "c1"}            \* "c1" is a cancellable context

Fut == 1..MaxFut
NoFut == 0

\* The transform given to Map, a function from T to U.  The values of U are
\* kept apart from those of T, so that a transformed value is recognisable.
Transform(v) == v + MaxFut

\* Thread identities: the goroutine of future f is thread f, the reading
\* goroutines of the application follow, then the goroutines All starts.
Readers == (MaxFut + 1)..(MaxFut + NumReaders)
R1 == MaxFut + 1                \* the first reader of the application
AllIdx == 1..MaxAll
AllReader(i) == MaxFut + NumReaders + i
AllReaders == {AllReader(i) : i \in AllIdx}
Threads == Fut \cup Readers \cup AllReaders

Combinators == {"Map", "MapErr", "FlatMap", "FlatMapErr"}

VARIABLES
  nfut,       \* number of futures constructed so far (futures 1..nfut exist)
  kind,       \* kind[f]: the constructor that built f
  fctx,       \* f.ctx
  val,        \* f.val
  err,        \* f.err
  state,      \* f.state
  up,         \* the upstream future captured by a combinator's closure
  arg,        \* the item captured by the closure IterPar gives to New
  gerr,       \* history: the error Err was given for f
  tpc,        \* position of the goroutine started by New for f
  tret,       \* the locals (val, err) of that goroutine once fun has returned
  bound,      \* the future returned by the bind function of FlatMap/FlatMapErr
  cancelled,  \* the contexts whose Done channel is closed
  tg,         \* tg[t]: the TryGet call thread t is executing or last executed
  conv,       \* conv[t]: the GetOr, GetElse or MustGet call of thread t
  apc,        \* position of the goroutine that called All
  actx,       \* All's ctx
  afuts,      \* All's futures
  iarr,       \* history: the array IterPar was given
  vals,       \* All's vals
  adone,      \* completed iterations of All's loop (line 183)
  ares,       \* what All returned
  apre,       \* history: All's ctx was cancelled when All was called
  arpc,       \* arpc[i]: position of the goroutine All started for futures[i]
  invoked,    \* history: how often the function given to New for f was called
  upReads,    \* history: how many TryGet calls f's task made on its upstream
  xforms,     \* history: how often f's transform / bind function was called
  recvs       \* history: how many receives on f.stateCh completed

futVars == <<nfut, kind, fctx, up, arg, gerr>>
allVars == <<apc, actx, afuts, iarr, vals, adone, ares, apre, arpc>>
hist == <<invoked, upReads, xforms, recvs>>
vars == <<futVars, val, err, state, tpc, tret, bound, cancelled, conv, tg,
          allVars, hist>>

Outcome(v, e) == [v |-> v, e |-> e]

\* the task function of a future built by New has not returned yet
NoOutcome == Outcome(Zero, Nil)

\* A call of TryGet: its position pc, its receiver f and its ctx, what it
\* returned (v, e), and as history the branch it returned through (via),
\* whether f was terminal when the call started (term) and whether ctx was
\* cancelled then (pre).
Frame(pc, f, c, v, e, via, term, pre) ==
  [pc |-> pc, f |-> f, ctx |-> c, v |-> v, e |-> e, via |-> via,
   term |-> term, pre |-> pre]

IdleFrame == Frame("idle", NoFut, Background, Zero, Nil, "none", FALSE, FALSE)

\* A call of GetOr, GetElse or MustGet (w): its receiver f and ctx, its
\* position pc, the value v it returned or the value e it panicked with,
\* and as history fb, the number of calls of GetElse's fallback function.
Conv(w, pc, f, c, v, e, fb) ==
  [w |-> w, pc |-> pc, f |-> f, ctx |-> c, v |-> v, e |-> e, fb |-> fb]

NoConv == Conv("none", "idle", NoFut, Background, Zero, Nil, 0)

NoResult == [vals |-> <<>>, e |-> Nil, isnil |-> TRUE]

Init ==
  /\ nfut = 0
  /\ kind = [f \in Fut |-> "none"]
  /\ fctx = [f \in Fut |-> Background]
  /\ val = [f \in Fut |-> Zero]
  /\ err = [f \in Fut |-> Nil]
  /\ state = [f \in Fut |-> StatePending]
  /\ up = [f \in Fut |-> NoFut]
  /\ arg = [f \in Fut |-> Zero]
  /\ gerr = [f \in Fut |-> Nil]
  /\ tpc = [f \in Fut |-> "none"]
  /\ tret = [f \in Fut |-> NoOutcome]
  /\ bound = [f \in Fut |-> NoFut]
  /\ cancelled = {}
  /\ tg = [t \in Threads |-> IdleFrame]
  /\ conv = [t \in Readers |-> NoConv]
  /\ apc = "idle"
  /\ actx = Background
  /\ afuts = <<>>
  /\ iarr = <<>>
  /\ vals = <<>>
  /\ adone = 0
  /\ ares = NoResult
  /\ apre = FALSE
  /\ arpc = [i \in AllIdx |-> "none"]
  /\ invoked = [f \in Fut |-> 0]
  /\ upReads = [f \in Fut |-> 0]
  /\ xforms = [f \in Fut |-> 0]
  /\ recvs = [f \in Fut |-> 0]

Exists(f) == f \in 1..nfut

\* ------------------------------------------------------------ constructors

\* lines 23-29: &Future[T]{ctx: ctx, val: val, state: StateDone}; the channel
\* stays nil and no goroutine is started
Ok(c, max) ==
  /\ nfut < max
  /\ LET f == nfut + 1 IN
       /\ nfut' = f
       /\ kind' = [kind EXCEPT ![f] = "Ok"]
       /\ fctx' = [fctx EXCEPT ![f] = c]
       /\ val' = [val EXCEPT ![f] = ValOf(f)]
       /\ state' = [state EXCEPT ![f] = StateDone]
  /\ UNCHANGED <<err, up, arg, gerr, tpc, tret, bound, cancelled, conv, tg,
                 allVars, hist>>

\* the errors Err can be given for future f: error is an interface type,
\* so the caller can pass nil as well as an error
ErrArgs(f) == {Nil, ErrOf(f)}

\* lines 31-37: &Future[T]{ctx: ctx, err: err, state: StateError}, whatever
\* err is: with a nil err the future is in StateError with a nil f.err
Err(c, e, max) ==
  /\ nfut < max
  /\ LET f == nfut + 1 IN
       /\ e \in ErrArgs(f)
       /\ nfut' = f
       /\ kind' = [kind EXCEPT ![f] = "Err"]
       /\ fctx' = [fctx EXCEPT ![f] = c]
       /\ err' = [err EXCEPT ![f] = e]
       /\ gerr' = [gerr EXCEPT ![f] = e]
       /\ state' = [state EXCEPT ![f] = StateError]
  /\ UNCHANGED <<val, up, arg, tpc, tret, bound, cancelled, conv, tg, allVars,
                 hist>>

\* lines 40-45 and 56: the future is allocated in state Pending with a fresh
\* channel and its goroutine is started; the goroutine stands before the
\* call fun(f.ctx) of line 46.  k names the function the goroutine runs: the
\* task of the application ("New") or the closure of a combinator over u.
Spawn(k, c, u, max) ==
  /\ nfut < max
  /\ LET f == nfut + 1 IN
       /\ nfut' = f
       /\ kind' = [kind EXCEPT ![f] = k]
       /\ fctx' = [fctx EXCEPT ![f] = c]
       /\ up' = [up EXCEPT ![f] = u]
       /\ state' = [state EXCEPT ![f] = StatePending]
       /\ tpc' = [tpc EXCEPT ![f] = "fun"]
  /\ UNCHANGED <<val, err, arg, gerr, tret, bound, cancelled, conv, tg,
                 allVars, hist>>

New(c, max) == Spawn("New", c, NoFut, max)

\* lines 110, 122, 133, 145: New(f.ctx, closure over f)
Combine(k, u) ==
  /\ k \in Combinators
  /\ Exists(u)
  /\ Spawn(k, fctx[u], u, MaxFut)

\* --------------------------------------------------------------- TryGet

Return(t, v, e, via) ==
  tg' = [tg EXCEPT ![t].pc = "ret", ![t].v = v, ![t].e = e, ![t].via = via]

\* Enter with the context examined before the state: a cancelled context
\* makes the call fail whatever the state of f.
Enter_CtxFirst(t, f, c) ==
  tg' = [tg EXCEPT ![t] =
           IF c \in cancelled
             THEN Frame("ret", f, c, Zero, Canceled, "ctx",
                        state[f] # StatePending, TRUE)
           ELSE IF state[f] = StateDone
             THEN Frame("ret", f, c, val[f], Nil, "fast", TRUE, FALSE)
             ELSE Frame("L63", f, c, Zero, Nil, "none",
                        state[f] # StatePending, FALSE)]

\* Entry of f.TryGet(ctx) by thread t, up to and including line 60:
\*   if f.state == StateDone { return f.val, nil }
\* The call has no effect before this first read of f.state.
Enter(t, f, c) ==
  tg' = [tg EXCEPT ![t] =
           IF state[f] = StateDone
             THEN Frame("ret", f, c, val[f], Nil, "fast", TRUE,
                        c \in cancelled)
             ELSE Frame("L63", f, c, Zero, Nil, "none",
                        state[f] # StatePending, c \in cancelled)]

\* TG_L63 of a lazy future: a caller that finds f pending calls the task
\* function itself.
TG_L63_Lazy(t) ==
  /\ tg[t].pc = "L63"
  /\ LET f == tg[t].f IN
       IF state[f] = StateError
         THEN Return(t, Zero, err[f], "fast") /\ UNCHANGED invoked
         ELSE /\ tg' = [tg EXCEPT ![t].pc = "select"]
              /\ invoked' = [invoked EXCEPT ![f] = @ + 1]
  /\ UNCHANGED <<futVars, val, err, state, tpc, tret, bound, cancelled, conv,
                 allVars, upReads, xforms, recvs>>

\* line 63: if f.state == StateError { return defaultT, f.err }
TG_L63(t) ==
  /\ tg[t].pc = "L63"
  /\ LET f == tg[t].f IN
       IF state[f] = StateError
         THEN Return(t, Zero, err[f], "fast")
         ELSE tg' = [tg EXCEPT ![t].pc = "select"]
  /\ UNCHANGED <<futVars, val, err, state, tpc, tret, bound, cancelled, conv,
                 allVars, hist>>

\* TG_Recv from a goroutine that sends again after every receive.
TG_Recv_Resend(t) ==
  /\ tg[t].pc = "select"
  /\ LET f == tg[t].f
         sent == state[f] IN
       /\ tpc[f] = "send"
       /\ recvs' = [recvs EXCEPT ![f] = @ + 1]
       /\ IF sent = StateDone THEN Return(t, val[f], Nil, "chan")
          ELSE IF sent = StateError THEN Return(t, Zero, err[f], "chan")
          ELSE UNCHANGED tg
  /\ UNCHANGED <<futVars, val, err, state, tpc, tret, bound, cancelled, conv,
                 allVars, invoked, upReads, xforms>>

\* TG_Recv returning the zero value in place of f.val.
TG_Recv_NoVal(t) ==
  /\ tg[t].pc = "select"
  /\ LET f == tg[t].f
         sent == state[f] IN
       /\ tpc[f] = "send"
       /\ tpc' = [tpc EXCEPT ![f] = "exit"]
       /\ recvs' = [recvs EXCEPT ![f] = @ + 1]
       /\ IF sent = StateDone THEN Return(t, Zero, Nil, "chan")
          ELSE IF sent = StateError THEN Return(t, Zero, err[f], "chan")
          ELSE UNCHANGED tg
  /\ UNCHANGED <<futVars, val, err, state, tret, bound, cancelled, conv,
                 allVars, invoked, upReads, xforms>>

\* lines 70-77 together with line 54: the goroutine of f is at its send
\* f.stateCh <- f.state and t is in the select; what is received is the
\* state the sender read.  A received StatePending loops (line 68).
TG_Recv(t) ==
  /\ tg[t].pc = "select"
  /\ LET f == tg[t].f
         sent == state[f] IN
       /\ tpc[f] = "send"
       /\ tpc' = [tpc EXCEPT ![f] = "exit"]
       /\ recvs' = [recvs EXCEPT ![f] = @ + 1]
       /\ IF sent = StateDone THEN Return(t, val[f], Nil, "chan")
          ELSE IF sent = StateError THEN Return(t, Zero, err[f], "chan")
          ELSE UNCHANGED tg
  /\ UNCHANGED <<futVars, val, err, state, tret, bound, cancelled, conv,
                 allVars, invoked, upReads, xforms>>

\* TG_CtxDone recording the cancellation on the future.
TG_CtxDone_Caches(t) ==
  /\ tg[t].pc = "select"
  /\ tg[t].ctx \in cancelled
  /\ Return(t, Zero, Canceled, "ctx")
  /\ err' = [err EXCEPT ![tg[t].f] = Canceled]
  /\ state' = [state EXCEPT ![tg[t].f] = StateError]
  /\ UNCHANGED <<futVars, val, tpc, tret, bound, cancelled, conv, allVars,
                 hist>>

\* TG_CtxDone stopping the goroutine of the future it gave up on.
TG_CtxDone_Stops(t) ==
  /\ tg[t].pc = "select"
  /\ tg[t].ctx \in cancelled
  /\ Return(t, Zero, Canceled, "ctx")
  /\ tpc' = [tpc EXCEPT ![tg[t].f] = "exit"]
  /\ UNCHANGED <<futVars, val, err, state, tret, bound, cancelled, conv,
                 allVars, hist>>

\* lines 78-80: case <-ctx.Done(): return defaultT, ctx.Err()
TG_CtxDone(t) ==
  /\ tg[t].pc = "select"
  /\ tg[t].ctx \in cancelled
  /\ Return(t, Zero, Canceled, "ctx")
  /\ UNCHANGED <<futVars, val, err, state, tpc, tret, bound, cancelled, conv,
                 allVars, hist>>

\* A goroutine of the application calls f.TryGet(ctx).  Each such call has
\* its own thread identity; the calls being interchangeable, they start in
\* the order of their numbers.
ReaderCall(t, f, c) ==
  /\ t \in Readers
  /\ tg[t].pc = "idle"
  /\ t - 1 \in Readers => tg[t - 1].pc # "idle"
  /\ Exists(f)
  /\ Enter(t, f, c)
  /\ UNCHANGED <<futVars, val, err, state, tpc, tret, bound, cancelled, conv,
                 allVars, hist>>

\* ------------------------------------------- GetOr, GetElse and MustGet

Wrappers == {"GetOr", "GetElse", "MustGet"}

\* The fallback value given to GetOr and the value the fallback function
\* given to GetElse returns, kept apart from the values of the futures.
Fallback == MaxFut + MaxFut + 1
ElseVal == Fallback + 1

\* lines 86, 94, 102: a goroutine of the application calls f.GetOr,
\* f.GetElse or f.MustGet, which starts with v, err := f.TryGet(ctx)
ConvCall(t, w, f, c) ==
  /\ t \in Readers
  /\ w \in Wrappers
  /\ tg[t].pc = "idle"
  /\ t - 1 \in Readers => tg[t - 1].pc # "idle"
  /\ Exists(f)
  /\ Enter(t, f, c)
  /\ conv' = [conv EXCEPT ![t] = Conv(w, "call", f, c, Zero, Nil, 0)]
  /\ UNCHANGED <<futVars, val, err, state, tpc, tret, bound, cancelled,
                 allVars, hist>>

\* ConvReturn with MustGet returning the zero value where it has to panic.
ConvReturn_NoPanic(t) ==
  /\ conv[t].pc = "call"
  /\ tg[t].pc = "ret"
  /\ LET v == tg[t].v
         e == tg[t].e IN
       conv' = [conv EXCEPT ![t] =
                  IF e = Nil THEN [@ EXCEPT !.pc = "ret", !.v = v]
                  ELSE IF @.w = "GetOr"
                    THEN [@ EXCEPT !.pc = "ret", !.v = Fallback]
                  ELSE IF @.w = "GetElse"
                    THEN [@ EXCEPT !.pc = "ret", !.v = ElseVal, !.fb = @ + 1]
                  ELSE [@ EXCEPT !.pc = "ret", !.v = v]]
  /\ UNCHANGED <<futVars, val, err, state, tpc, tret, bound, cancelled, tg,
                 allVars, hist>>

\* After TryGet returned (v, err):
\*   GetOr   (87-90):   err != nil -> return fallback;    else return v
\*   GetElse (95-98):   err != nil -> return fallback();  else return v
\*   MustGet (103-106): err != nil -> panic(err);         else return v
ConvReturn(t) ==
  /\ conv[t].pc = "call"
  /\ tg[t].pc = "ret"
  /\ LET v == tg[t].v
         e == tg[t].e IN
       conv' = [conv EXCEPT ![t] =
                  IF e = Nil THEN [@ EXCEPT !.pc = "ret", !.v = v]
                  ELSE IF @.w = "GetOr"
                    THEN [@ EXCEPT !.pc = "ret", !.v = Fallback]
                  ELSE IF @.w = "GetElse"
                    THEN [@ EXCEPT !.pc = "ret", !.v = ElseVal, !.fb = @ + 1]
                  ELSE [@ EXCEPT !.pc = "panic", !.e = e]]
  /\ UNCHANGED <<futVars, val, err, state, tpc, tret, bound, cancelled, tg,
                 allVars, hist>>

\* cancel() of the cancellable context
Cancel(c) ==
  /\ c # Background
  /\ c \notin cancelled
  /\ cancelled' = cancelled \cup {c}
  /\ UNCHANGED <<futVars, val, err, state, tpc, tret, bound, conv, tg,
                 allVars, hist>>

\* ------------------------------------------------- the goroutine of New

\* val, err := fun(f.ctx) has returned o (line 46); the goroutine takes the
\* branch of line 47 and writes the first field of that branch:
\*   line 48  f.err = err     or     line 51  f.val = val
\* The return of fun is local to the goroutine, so it and the write that
\* follows it are one step.
Store(f, o) ==
  /\ tret' = [tret EXCEPT ![f] = o]
  /\ IF o.e # Nil
       THEN err' = [err EXCEPT ![f] = o.e] /\ UNCHANGED val
       ELSE val' = [val EXCEPT ![f] = o.v] /\ UNCHANGED err
  /\ tpc' = [tpc EXCEPT ![f] = "state"]

\* TaskFunReturn with the state published before the outcome is stored.
TaskFunReturn_StateFirst(f, fail) ==
  /\ kind[f] = "New"
  /\ tpc[f] = "fun"
  /\ invoked' = [invoked EXCEPT ![f] = @ + 1]
  /\ tret' = [tret EXCEPT ![f] = IF fail THEN Outcome(Zero, ErrOf(f))
                                 ELSE Outcome(ValOf(f), Nil)]
  /\ state' = [state EXCEPT ![f] = IF fail THEN StateError ELSE StateDone]
  /\ tpc' = [tpc EXCEPT ![f] = "state"]
  /\ UNCHANGED <<futVars, val, err, bound, cancelled, conv, tg, allVars,
                 upReads, xforms, recvs>>

\* line 46 for a future built by New: the task function returns
\* (ValOf(f), nil), or with fail (defaultT, ErrOf(f)).
TaskFunReturn(f, fail) ==
  /\ kind[f] = "New"
  /\ tpc[f] = "fun"
  /\ invoked' = [invoked EXCEPT ![f] = @ + 1]
  /\ Store(f, IF fail THEN Outcome(Zero, ErrOf(f))
              ELSE Outcome(ValOf(f), Nil))
  /\ UNCHANGED <<futVars, state, bound, cancelled, conv, tg, allVars, upReads,
                 xforms, recvs>>

\* line 46 for a combinator: the closure is called with f.ctx and starts
\* with val, err := f.TryGet(ctx) on the captured upstream future
\* (lines 111, 123, 134, 146).
TaskUpGet(f) ==
  /\ kind[f] \in Combinators
  /\ tpc[f] = "fun"
  /\ invoked' = [invoked EXCEPT ![f] = @ + 1]
  /\ upReads' = [upReads EXCEPT ![f] = @ + 1]
  /\ Enter(f, up[f], fctx[f])
  /\ tpc' = [tpc EXCEPT ![f] = "upget"]
  /\ UNCHANGED <<futVars, val, err, state, tret, bound, cancelled, conv,
                 allVars, xforms, recvs>>

\* The closure's return after the upstream read, when it returns without
\* calling bind, followed by the write of line 48 or 51:
\*   Map        (112-116)  err -> (defaultU, err);  else (fun(ctx, val), nil)
\*   MapErr     (124-127)  err -> (val, fun(ctx, val)), me being what fun
\*                         returns;  else (val, nil)
\*   FlatMap    (135-138)  err -> (defaultU, err)
\*   FlatMapErr (150-151)  no err -> (defaultU, nil)
TaskAfterUp(f, me) ==
  /\ tpc[f] = "upget"
  /\ tg[f].pc = "ret"
  /\ LET v == tg[f].v
         e == tg[f].e IN
       \/ /\ kind[f] = "Map"
          /\ me = Nil
          /\ Store(f, IF e # Nil THEN Outcome(Zero, e)
                      ELSE Outcome(Transform(v), Nil))
          /\ xforms' = [xforms EXCEPT ![f] = IF e # Nil THEN @ ELSE @ + 1]
       \/ /\ kind[f] = "MapErr"
          /\ e # Nil
          /\ Store(f, Outcome(v, me))
          /\ xforms' = [xforms EXCEPT ![f] = @ + 1]
       \/ /\ kind[f] = "MapErr"
          /\ e = Nil
          /\ me = Nil
          /\ Store(f, Outcome(v, Nil))
          /\ UNCHANGED xforms
       \/ /\ kind[f] = "FlatMap"
          /\ me = Nil
          /\ e # Nil
          /\ Store(f, Outcome(Zero, e))
          /\ UNCHANGED xforms
       \/ /\ kind[f] = "FlatMapErr"
          /\ me = Nil
          /\ e = Nil
          /\ Store(f, Outcome(Zero, Nil))
          /\ UNCHANGED xforms
  /\ tg' = [tg EXCEPT ![f] = IdleFrame]
  /\ UNCHANGED <<futVars, state, bound, cancelled, conv, allVars, invoked,
                 upReads, recvs>>

\* FlatMap line 139 / FlatMapErr line 148: fun(ctx, val).TryGet(ctx).  The
\* bind function returns a future g of the application's choosing and the
\* closure enters TryGet on it.
TaskBind(f, g) ==
  /\ tpc[f] = "upget"
  /\ tg[f].pc = "ret"
  /\ \/ kind[f] = "FlatMap" /\ tg[f].e = Nil
     \/ kind[f] = "FlatMapErr" /\ tg[f].e # Nil
  /\ Exists(g)
  /\ g # f
  /\ xforms' = [xforms EXCEPT ![f] = @ + 1]
  /\ bound' = [bound EXCEPT ![f] = g]
  /\ Enter(f, g, fctx[f])
  /\ tpc' = [tpc EXCEPT ![f] = "bindget"]
  /\ UNCHANGED <<futVars, val, err, state, tret, cancelled, conv, allVars,
                 invoked, upReads, recvs>>

\* FlatMap line 139 / FlatMapErr line 148: the closure returns what the
\* TryGet on the bound future returned; then the write of line 48 or 51.
TaskAfterBind(f) ==
  /\ tpc[f] = "bindget"
  /\ tg[f].pc = "ret"
  /\ Store(f, Outcome(tg[f].v, tg[f].e))
  /\ tg' = [tg EXCEPT ![f] = IdleFrame]
  /\ UNCHANGED <<futVars, state, bound, cancelled, conv, allVars, hist>>

\* lines 49 / 52: f.state = StateError, or f.state = StateDone
TaskState(f) ==
  /\ tpc[f] = "state"
  /\ state' = [state EXCEPT ![f] =
                 IF tret[f].e # Nil THEN StateError ELSE StateDone]
  /\ tpc' = [tpc EXCEPT ![f] = "send"]
  /\ UNCHANGED <<futVars, val, err, tret, bound, cancelled, conv, tg, allVars,
                 hist>>

\* ------------------------------------------------------------------ All

Result(vs, e, isnil) == [vals |-> vs, e |-> e, isnil |-> isnil]

\* lines 167-181: All makes its channels and vals and starts one goroutine
\* for each future of the list.  Starting a goroutine has no effect before
\* the goroutine's first step, so the loop of line 171 is one step.
AllCall(c, fs) ==
  /\ apc = "idle"
  /\ \A i \in DOMAIN fs : Exists(fs[i])
  /\ actx' = c
  /\ apre' = (c \in cancelled)
  /\ afuts' = fs
  /\ vals' = [i \in DOMAIN fs |-> Zero]
  /\ arpc' = [i \in AllIdx |-> IF i \in DOMAIN fs THEN "start" ELSE "none"]
  /\ apc' = "loop"
  /\ UNCHANGED <<futVars, val, err, state, tpc, tret, bound, cancelled, conv,
                 tg, iarr, adone, ares, hist>>

\* line 173: the goroutine for futures[i] enters f.TryGet(ctx)
AR_TryGet(i) ==
  /\ arpc[i] = "start"
  /\ Enter(AllReader(i), afuts[i], actx)
  /\ arpc' = [arpc EXCEPT ![i] = "tryget"]
  /\ UNCHANGED <<futVars, val, err, state, tpc, tret, bound, cancelled, conv,
                 apc, actx, afuts, iarr, vals, adone, ares, apre, hist>>

\* AR_After storing the values in the order of completion.
AR_After_Append(i) ==
  /\ arpc[i] = "tryget"
  /\ tg[AllReader(i)].pc = "ret"
  /\ IF tg[AllReader(i)].e # Nil
       THEN /\ arpc' = [arpc EXCEPT ![i] = "errsend"]
            /\ UNCHANGED <<vals, tg>>
       ELSE /\ LET k == 1 + Cardinality({j \in DOMAIN vals :
                                          arpc[j] \in {"donesend", "exit"}})
               IN vals' = [vals EXCEPT ![k] = tg[AllReader(i)].v]
            /\ arpc' = [arpc EXCEPT ![i] = "donesend"]
            /\ tg' = [tg EXCEPT ![AllReader(i)] = IdleFrame]
  /\ UNCHANGED <<futVars, val, err, state, tpc, tret, bound, cancelled, conv,
                 apc, actx, afuts, iarr, adone, ares, apre, hist>>

\* lines 174-178: after TryGet returned, the goroutine goes to its send on
\* errCh, or writes vals[i] = val and goes to its send on doneCh
AR_After(i) ==
  /\ arpc[i] = "tryget"
  /\ tg[AllReader(i)].pc = "ret"
  /\ IF tg[AllReader(i)].e # Nil
       THEN /\ arpc' = [arpc EXCEPT ![i] = "errsend"]
            /\ UNCHANGED <<vals, tg>>
       ELSE /\ vals' = [vals EXCEPT ![i] = tg[AllReader(i)].v]
            /\ arpc' = [arpc EXCEPT ![i] = "donesend"]
            /\ tg' = [tg EXCEPT ![AllReader(i)] = IdleFrame]
  /\ UNCHANGED <<futVars, val, err, state, tpc, tret, bound, cancelled, conv,
                 apc, actx, afuts, iarr, adone, ares, apre, hist>>

\* line 185 with line 179: All receives from doneCh what goroutine i sends
AllDone(i) ==
  /\ apc = "loop"
  /\ adone < Len(afuts)
  /\ arpc[i] = "donesend"
  /\ arpc' = [arpc EXCEPT ![i] = "exit"]
  /\ adone' = adone + 1
  /\ UNCHANGED <<futVars, val, err, state, tpc, tret, bound, cancelled, conv,
                 tg, apc, actx, afuts, iarr, vals, ares, apre, hist>>

\* lines 186-187 with line 175: All receives the error goroutine i sends on
\* errCh and returns (nil, err); the goroutine goes on to line 179
AllErr(i) ==
  /\ apc = "loop"
  /\ adone < Len(afuts)
  /\ arpc[i] = "errsend"
  /\ arpc' = [arpc EXCEPT ![i] = "donesend"]
  /\ ares' = Result(<<>>, tg[AllReader(i)].e, TRUE)
  /\ apc' = "ret"
  /\ tg' = [tg EXCEPT ![AllReader(i)] = IdleFrame]
  /\ UNCHANGED <<futVars, val, err, state, tpc, tret, bound, cancelled, conv,
                 actx, afuts, iarr, vals, adone, apre, hist>>

\* lines 188-189: case <-ctx.Done(): return nil, ctx.Err()
AllCtxDone ==
  /\ apc = "loop"
  /\ adone < Len(afuts)
  /\ actx \in cancelled
  /\ ares' = Result(<<>>, Canceled, TRUE)
  /\ apc' = "ret"
  /\ UNCHANGED <<futVars, val, err, state, tpc, tret, bound, cancelled, conv,
                 tg, actx, afuts, iarr, vals, adone, apre, arpc, hist>>

\* line 193: the loop has made len(futures) iterations: return vals, nil
AllReturn ==
  /\ apc = "loop"
  /\ adone = Len(afuts)
  /\ ares' = Result(vals, Nil, FALSE)
  /\ apc' = "ret"
  /\ UNCHANGED <<futVars, val, err, state, tpc, tret, bound, cancelled, conv,
                 tg, actx, afuts, iarr, vals, adone, apre, arpc, hist>>

\* ---------------------------------------------------------------- IterPar

\* The items of the array given to IterPar, and the function given with it:
\* a function from T to U whose results are kept apart from the items.
Items == 1..MaxAll
Fn(x) == x + MaxAll

\* the arrays IterPar can be given
Arrays == UNION {[1..n -> Items] : n \in 0..MaxAll}

\* IterPar with every closure capturing the item of the last iteration.
IterPar_LastItem(c, arr) ==
  LET n == Len(arr)
      new == (nfut + 1)..(nfut + n) IN
  /\ apc = "idle"
  /\ nfut + n <= MaxAll
  /\ nfut' = nfut + n
  /\ kind' = [f \in Fut |-> IF f \in new THEN "Iter" ELSE kind[f]]
  /\ fctx' = [f \in Fut |-> IF f \in new THEN c ELSE fctx[f]]
  /\ arg' = [f \in Fut |-> IF f \in new THEN arr[n] ELSE arg[f]]
  /\ tpc' = [f \in Fut |-> IF f \in new THEN "fun" ELSE tpc[f]]
  /\ actx' = c
  /\ apre' = (c \in cancelled)
  /\ afuts' = [i \in 1..n |-> nfut + i]
  /\ iarr' = arr
  /\ vals' = [i \in 1..n |-> Zero]
  /\ arpc' = [i \in AllIdx |-> IF i <= n THEN "start" ELSE "none"]
  /\ apc' = "loop"
  /\ UNCHANGED <<up, gerr, val, err, state, tret, bound, cancelled, conv, tg,
                 adone, ares, hist>>

\* lines 157-163: for each item of arr, New(ctx, closure over the item)
\* allocates a Pending future and starts its goroutine, which stands before
\* the call of line 46; then All(ctx, futures) (lines 167-181) is called on
\* the futures in the order of the items.  Allocating a future and starting
\* a goroutine have no effect before the goroutine's first step, so the
\* call up to the loop of line 183 is one step.
IterPar(c, arr) ==
  LET n == Len(arr)
      new == (nfut + 1)..(nfut + n) IN
  /\ apc = "idle"
  /\ nfut + n <= MaxAll
  /\ nfut' = nfut + n
  /\ kind' = [f \in Fut |-> IF f \in new THEN "Iter" ELSE kind[f]]
  /\ fctx' = [f \in Fut |-> IF f \in new THEN c ELSE fctx[f]]
  /\ arg' = [f \in Fut |-> IF f \in new THEN arr[f - nfut] ELSE arg[f]]
  /\ tpc' = [f \in Fut |-> IF f \in new THEN "fun" ELSE tpc[f]]
  /\ actx' = c
  /\ apre' = (c \in cancelled)
  /\ afuts' = [i \in 1..n |-> nfut + i]
  /\ iarr' = arr
  /\ vals' = [i \in 1..n |-> Zero]
  /\ arpc' = [i \in AllIdx |-> IF i <= n THEN "start" ELSE "none"]
  /\ apc' = "loop"
  /\ UNCHANGED <<up, gerr, val, err, state, tret, bound, cancelled, conv, tg,
                 adone, ares, hist>>

\* line 46 for a future built by IterPar: the closure of lines 159-161
\* returns what fun(ctx, val) returns for the captured item: (Fn(item), nil),
\* or with fail an error; then the write of line 48 or 51.
TaskIterReturn(f, fail) ==
  /\ kind[f] = "Iter"
  /\ tpc[f] = "fun"
  /\ invoked' = [invoked EXCEPT ![f] = @ + 1]
  /\ Store(f, IF fail THEN Outcome(Zero, ErrOf(f))
              ELSE Outcome(Fn(arg[f]), Nil))
  /\ UNCHANGED <<futVars, state, bound, cancelled, conv, tg, allVars, upReads,
                 xforms, recvs>>

\* the lists All can be given: up to MaxAll futures, repetitions allowed
Lists == UNION {[1..n -> Fut] : n \in 0..MaxAll}

\* ------------------------------------------------------- specifications

MapErrRets == {Nil, Mapped}     \* what the transform of MapErr can return

\* the error values Err is called with
Errs == UNION {ErrArgs(f) : f \in Fut}

TaskStep ==
  \/ \E f \in Fut : TaskFunReturn(f, FALSE)
  \/ \E f \in Fut : TaskFunReturn(f, TRUE)
  \/ \E f \in Fut : TaskState(f)

CombStep ==
  \/ \E k \in Combinators, u \in Fut : Combine(k, u)
  \/ \E f \in Fut : TaskUpGet(f)
  \/ \E f \in Fut, me \in MapErrRets : TaskAfterUp(f, me)
  \/ \E f \in Fut, g \in Fut : TaskBind(f, g)
  \/ \E f \in Fut : TaskAfterBind(f)

TGStep ==
  \/ \E t \in Threads : TG_L63(t)
  \/ \E t \in Threads : TG_Recv(t)
  \/ \E t \in Threads : TG_CtxDone(t)

\* Spec: up to CoreFut futures built by Ok, Err and New, and NumReaders
\* calls of TryGet on them by goroutines of the application.
Next ==
  \/ \E c \in Ctxs : Ok(c, CoreFut)
  \/ \E c \in Ctxs, e \in Errs : Err(c, e, CoreFut)
  \/ \E c \in Ctxs : New(c, CoreFut)
  \/ TaskStep
  \/ \E t \in Readers, f \in Fut, c \in Ctxs : ReaderCall(t, f, c)
  \/ TGStep
  \/ \E c \in Ctxs : Cancel(c)

Spec == Init /\ [][Next]_vars

\* SpecComb: up to MaxFut futures built by Ok, Err, New and the four
\* combinators; the readers are the closures of the combinators and one
\* call of TryGet by the application, on any of the futures.
NextComb ==
  \/ \E c \in Ctxs : Ok(c, MaxFut)
  \/ \E c \in Ctxs, e \in Errs : Err(c, e, MaxFut)
  \/ \E c \in Ctxs : New(c, MaxFut)
  \/ TaskStep
  \/ CombStep
  \/ \E f \in Fut : ReaderCall(R1, f, Background)
  \/ TGStep
  \/ \E c \in Ctxs : Cancel(c)

SpecComb == Init /\ [][NextComb]_vars

\* SpecAll: up to MaxAll futures built by Ok, Err and New, one call of All
\* on a list of them, and one call of TryGet by the application on any of
\* them, before, during or after the call of All: the futures are the
\* application's, and its call competes with the goroutines of All for the
\* one send of line 54.  No function that All calls reads f.ctx of such a
\* future, so the futures are built with the background context.
NextAll ==
  \/ Ok(Background, MaxAll)
  \/ \E e \in Errs : Err(Background, e, MaxAll)
  \/ New(Background, MaxAll)
  \/ TaskStep
  \/ \E c \in Ctxs, fs \in Lists : AllCall(c, fs)
  \/ \E f \in Fut : ReaderCall(R1, f, Background)
  \/ \E i \in AllIdx : AR_TryGet(i)
  \/ \E i \in AllIdx : AR_After(i)
  \/ \E i \in AllIdx : AllDone(i)
  \/ \E i \in AllIdx : AllErr(i)
  \/ AllCtxDone
  \/ AllReturn
  \/ TGStep
  \/ \E c \in Ctxs : Cancel(c)

SpecAll == Init /\ [][NextAll]_vars

\* SpecConv: up to CoreFut futures built by Ok, Err and New, and NumReaders
\* calls of GetOr, GetElse and MustGet on them.
NextConv ==
  \/ \E c \in Ctxs : Ok(c, CoreFut)
  \/ \E c \in Ctxs, e \in Errs : Err(c, e, CoreFut)
  \/ \E c \in Ctxs : New(c, CoreFut)
  \/ TaskStep
  \/ \E t \in Readers, w \in Wrappers, f \in Fut, c \in Ctxs :
       ConvCall(t, w, f, c)
  \/ \E t \in Readers : ConvReturn(t)
  \/ TGStep
  \/ \E c \in Ctxs : Cancel(c)

SpecConv == Init /\ [][NextConv]_vars

\* SpecIter: one call of IterPar.  The futures IterPar builds stay local to
\* it (lines 157-163), so only the goroutines of All read them.
NextIter ==
  \/ \E c \in Ctxs, arr \in Arrays : IterPar(c, arr)
  \/ \E f \in Fut : TaskIterReturn(f, FALSE)
  \/ \E f \in Fut : TaskIterReturn(f, TRUE)
  \/ \E f \in Fut : TaskState(f)
  \/ \E i \in AllIdx : AR_TryGet(i)
  \/ \E i \in AllIdx : AR_After(i)
  \/ \E i \in AllIdx : AllDone(i)
  \/ \E i \in AllIdx : AllErr(i)
  \/ AllCtxDone
  \/ AllReturn
  \/ TGStep
  \/ \E c \in Ctxs : Cancel(c)

SpecIter == Init /\ [][NextIter]_vars

\* Fairness.  The Go scheduler runs every goroutine that can take a step,
\* and a select takes a case that stays ready.  Nothing makes a task
\* function return, the application call TryGet or All, or a context be
\* cancelled: those steps carry no fairness.
FairTasks ==
  /\ \A f \in Fut : WF_vars(TaskState(f))
  /\ \A t \in Threads : WF_vars(TG_L63(t))
  /\ \A t \in Threads : WF_vars(TG_Recv(t))
  /\ \A t \in Threads : WF_vars(TG_CtxDone(t))

FairAll ==
  /\ \A i \in AllIdx : WF_vars(AR_TryGet(i))
  /\ \A i \in AllIdx : WF_vars(AR_After(i))
  /\ \A i \in AllIdx : WF_vars(AllDone(i))
  /\ \A i \in AllIdx : WF_vars(AllErr(i))
  /\ WF_vars(AllCtxDone)
  /\ WF_vars(AllReturn)

FairSpec == Spec /\ FairTasks
FairSpecAll == SpecAll /\ FairTasks /\ FairAll
FairSpecIter == SpecIter /\ FairTasks /\ FairAll

\* ================================================================ claims

\* what TryGet returned to thread t
Got(t) == Outcome(tg[t].v, tg[t].e)

\* The outcome of future f as TryGet reports it: what Ok or Err was given,
\* or what the function run by the goroutine of f returned, the value being
\* the zero value beside an error (lines 64-65, 75-76).
Expected(f) ==
  IF kind[f] = "Ok" THEN Outcome(ValOf(f), Nil)
  ELSE IF kind[f] = "Err" THEN Outcome(Zero, gerr[f])
  ELSE IF tret[f].e # Nil THEN Outcome(Zero, tret[f].e)
  ELSE tret[f]

\* What a read of the terminal future f yields, by the checks of lines
\* 60-65: f.val beside a nil error in StateDone, else the zero value beside
\* f.err.  The callers of TryGet test the error (err != nil, lines 87, 95,
\* 103, 112, 124, 135, 147, 174), not the state: a future fails for them
\* when the error is not nil, and a future that Err built from a nil error
\* is read as the success (zero, nil).
Yields(f) ==
  IF state[f] = StateDone THEN Outcome(val[f], Nil) ELSE Outcome(Zero, err[f])

Fails(f) == state[f] # StatePending /\ Yields(f).e # Nil
Succeeds(f) == state[f] # StatePending /\ Yields(f).e = Nil

\* ------------------------------------------------------------------- C1
\* C1: N >= 2 readers with never-cancelled contexts on one future built by
\* New all return, and return the task's outcome.  If every call returns,
\* then no call with the background context is still in the select once
\* the goroutine of f has completed its only send: from such a state no
\* step lets the call return.  Stated that way the claim is an invariant.
C1_EveryReaderReturns ==
  \A t \in Readers :
    ~ /\ tg[t].pc = "select"
      /\ tg[t].ctx = Background
      /\ kind[tg[t].f] = "New"
      /\ tpc[tg[t].f] = "exit"

\* ------------------------------------------------------------------- C2
FieldsKept(f) ==
  /\ state'[f] = state[f]
  /\ val'[f] = val[f]
  /\ err'[f] = err[f]

\* C2: the state of a future changes at most once, from Pending to Done or
\* Error, in the step of the future's own goroutine that stands at line
\* 49/52; once the state is Done or Error, state, value and error are kept
\* by every step.
C2_StateChangesOnce ==
  [][\A f \in Fut :
       Exists(f) =>
         /\ state[f] # StatePending => FieldsKept(f)
         /\ state'[f] # state[f] =>
              /\ state[f] = StatePending
              /\ state'[f] \in {StateDone, StateError}
              /\ tpc[f] = "state"
              /\ tpc'[f] = "send"]_vars

\* a future built by New is terminal, a combinator built on it is terminal
\* too, and a context has been cancelled
C2_Witness ==
  \E f \in Fut, g \in Fut :
    /\ Exists(f) /\ Exists(g)
    /\ kind[f] = "New"
    /\ up[g] = f
    /\ state[f] # StatePending
    /\ state[g] # StatePending
    /\ cancelled # {}

\* ------------------------------------------------------------------- C3
SoleReader(t) == \A t2 \in Readers \ {t} : tg[t2].pc = "idle"

\* C3: when one reader alone calls TryGet with the background context on a
\* future built by New whose task function has returned, the call
\* eventually has returned the task's outcome: (v, nil) or the error.
C3_SingleReaderReturns ==
  ([]SoleReader(R1)) =>
    [](( /\ tg[R1].pc # "idle"
         /\ tg[R1].ctx = Background
         /\ kind[tg[R1].f] = "New"
         /\ tpc[tg[R1].f] # "fun" )
       => <>( /\ tg[R1].pc = "ret"
              /\ Got(R1) = Expected(tg[R1].f) ))

\* the single reader arrived before the task had recorded its outcome and
\* got it through the channel
C3_Witness ==
  /\ SoleReader(R1)
  /\ tg[R1].pc = "ret"
  /\ tg[R1].ctx = Background
  /\ tg[R1].via = "chan"
  /\ kind[tg[R1].f] = "New"
  /\ Got(R1) = Expected(tg[R1].f)

\* ------------------------------------------------------------------- C4
\* C4: a TryGet call that starts when the future is terminal never waits in
\* the select, returns through the checks of lines 60-66 whatever its
\* context, and returns the cached outcome; so all such calls agree.
C4_TerminalReadReturnsCached ==
  \A t \in Readers :
    tg[t].term =>
      /\ tg[t].pc # "select"
      /\ tg[t].pc = "ret" =>
           /\ tg[t].via = "fast"
           /\ Got(t) = Expected(tg[t].f)

\* two calls on the same terminal future built by New have returned, one of
\* them with a context that was cancelled before the call, and nobody has
\* received from the channel
C4_Witness ==
  \E t1 \in Readers, t2 \in Readers :
    /\ t1 # t2
    /\ tg[t1].pc = "ret" /\ tg[t2].pc = "ret"
    /\ tg[t1].term /\ tg[t2].term
    /\ tg[t1].f = tg[t2].f
    /\ kind[tg[t1].f] = "New"
    /\ tg[t1].pre
    /\ recvs[tg[t1].f] = 0

\* ------------------------------------------------------------------- C5
\* C5: a call whose context was cancelled before the call and that found
\* the future Pending does return; when it returns while the future is
\* still Pending it returns (zero, ctx.Err()) and leaves the future and its
\* goroutine as they were; and a call on the same future whose context is
\* not cancelled returns the task's outcome.
C5_CancelledReadIsLocal ==
  /\ [][\A t \in Readers :
          ( /\ tg[t].pc \in {"L63", "select"}
            /\ tg'[t].pc = "ret"
            /\ tg[t].pre
            /\ state[tg[t].f] = StatePending )
          => /\ Got(t)' = Outcome(Zero, Canceled)
             /\ FieldsKept(tg[t].f)
             /\ tpc'[tg[t].f] = tpc[tg[t].f]
             /\ tret'[tg[t].f] = tret[tg[t].f]]_vars
  /\ [](\A t0 \in Readers, t \in Readers :
          ( /\ tg[t0].pc = "ret" /\ tg[t0].via = "ctx"
            /\ tg[t].pc = "ret" /\ tg[t].f = tg[t0].f
            /\ tg[t].ctx \notin cancelled )
          => Got(t) = Expected(tg[t].f))
  /\ \A t \in Readers :
       (tg[t].pc \in {"L63", "select"} /\ tg[t].pre) ~> tg[t].pc = "ret"

\* a call with a context cancelled beforehand has given up on a pending
\* future built by New, and a later call with the background context has
\* returned the outcome of that future
C5_Witness ==
  \E t0 \in Readers, t \in Readers :
    /\ t0 < t
    /\ tg[t0].pc = "ret" /\ tg[t0].via = "ctx"
    /\ tg[t0].pre /\ ~tg[t0].term
    /\ tg[t].pc = "ret" /\ tg[t].f = tg[t0].f
    /\ tg[t].ctx = Background
    /\ kind[tg[t].f] = "New"
    /\ Got(t) = Expected(tg[t].f)

\* ------------------------------------------------------------------- C6
\* C6: the function run by the goroutine of a future is called once: never
\* twice, and once the goroutine is past line 46 exactly once; its call
\* waits for no reader (for a task of the application the step of line 46
\* is enabled as soon as the future is built); a combinator's closure
\* reads its upstream once and calls its transform or bind at most once.
C6_TaskRunsOnce ==
  \A f \in Fut :
    /\ invoked[f] <= 1
    /\ upReads[f] <= 1
    /\ xforms[f] <= 1
    /\ tpc[f] \in {"upget", "bindget", "state", "send", "exit"} =>
         invoked[f] = 1
    /\ (kind[f] \in Combinators /\ tpc[f] \notin {"none", "fun"}) =>
         upReads[f] = 1
    /\ (kind[f] = "New" /\ tpc[f] = "fun") => ENABLED TaskFunReturn(f, FALSE)

\* the task of a future built by New has run, and two combinators built on
\* that future have read it and are terminal
C6_Witness ==
  \E f \in Fut, g \in Fut, h \in Fut :
    /\ g # h
    /\ kind[f] = "New"
    /\ up[g] = f /\ up[h] = f
    /\ invoked[f] = 1
    /\ state[g] # StatePending /\ state[h] # StatePending
    /\ xforms[g] = 1

\* ------------------------------------------------------------------- C7
\* C7: what All returns when its ctx is not cancelled and every input
\* future has succeeded is no error and a sequence as long as the list whose
\* element i is the value of futures[i], whichever input completed first.
C7_AllKeepsInputOrder ==
  ( /\ apc = "ret"
    /\ actx \notin cancelled
    /\ \A i \in DOMAIN afuts : Succeeds(afuts[i]) )
  => /\ ares.isnil = FALSE
     /\ ares.e = Nil
     /\ Len(ares.vals) = Len(afuts)
     /\ \A i \in DOMAIN afuts : ares.vals[i] = Yields(afuts[i]).v

\* All has returned the values of two different futures built by New that
\* stand in the list against the order of their construction
C7_Witness ==
  /\ apc = "ret"
  /\ ~ares.isnil
  /\ Len(afuts) = 2
  /\ afuts[1] > afuts[2]
  /\ kind[afuts[1]] = "New" /\ kind[afuts[2]] = "New"
  /\ ares.vals = <<val[afuts[1]], val[afuts[2]]>>

\* ------------------------------------------------------------------- C8
Failing(i) == Fails(afuts[i])

\* C8: All with the background context and an input future that fails
\* returns: it never returns a value sequence, what it returns is
\* (nil, e) with e the error of a failing input, and it does return, also
\* when other inputs stay pending for ever, whoever else reads the inputs.
C8_AllFailsFast ==
  /\ []( ( /\ apc = "ret"
           /\ actx = Background
           /\ \E i \in DOMAIN afuts : Failing(i) )
         => /\ ares.isnil
            /\ \E i \in DOMAIN afuts : Failing(i) /\ ares.e = err[afuts[i]] )
  /\ ( ( /\ apc = "loop"
         /\ actx = Background
         /\ \E i \in DOMAIN afuts : Failing(i) )
       ~> apc = "ret" )

\* ------------------------------------------------------------------- C9
\* C9: All called with an already cancelled context and a list of at least
\* one future returns the cancellation error and no values, also when every
\* input future is terminal.
C9_CancelledAllReturnsCtxErr ==
  (apc = "ret" /\ apre /\ Len(afuts) >= 1) =>
    (ares.isnil /\ ares.e = Canceled)

\* ------------------------------------------------------------------ C10
\* C10: once f and the future derived from it by Map are both terminal: if
\* f resolves to v (a read of f yields v and no error) the derived future
\* is Done with transform(v); if f fails with the error e the derived
\* future is Error with e and transform was not called.
C10_MapFollowsUpstream ==
  \A g \in Fut :
    ( /\ kind[g] = "Map"
      /\ state[g] # StatePending
      /\ state[up[g]] # StatePending )
    => /\ Succeeds(up[g]) =>
            /\ state[g] = StateDone
            /\ val[g] = Transform(Yields(up[g]).v)
       /\ Fails(up[g]) =>
            /\ state[g] = StateError
            /\ err[g] = err[up[g]]
            /\ xforms[g] = 0

\* ------------------------------------------------------------------ C11
\* C11: once f and the future derived from it by MapErr are both terminal:
\* if f resolves to v the derived future is Done with v and transform was
\* not called; if f fails, transform was called once, on the zero value,
\* and the derived future has what transform returned: that error, or with
\* a nil error the zero value; the error of f is not kept.
C11_MapErrFollowsUpstream ==
  \A g \in Fut :
    ( /\ kind[g] = "MapErr"
      /\ state[g] # StatePending
      /\ state[up[g]] # StatePending )
    => /\ Succeeds(up[g]) =>
            /\ state[g] = StateDone
            /\ val[g] = Yields(up[g]).v
            /\ xforms[g] = 0
       /\ Fails(up[g]) =>
            /\ xforms[g] = 1
            /\ tret[g].v = Zero
            /\ tret[g].e \in MapErrRets
            /\ tret[g].e # Nil => (state[g] = StateError /\ err[g] = tret[g].e)
            /\ tret[g].e = Nil => (state[g] = StateDone /\ val[g] = Zero)

\* ------------------------------------------------------------------ C12
\* future g has the outcome of future b, as a read of b yields it
Adopts(g, b) ==
  /\ state[b] # StatePending
  /\ Succeeds(b) => (state[g] = StateDone /\ val[g] = Yields(b).v)
  /\ Fails(b) => (state[g] = StateError /\ err[g] = err[b])

\* C12: once f and the future derived from it by FlatMap are both terminal:
\* if f resolves to a value, bind was called once and the derived future
\* has the outcome of the future bind returned, which is terminal; if f
\* fails with e the derived future is Error with e and bind was not called.
C12_FlatMapFollowsUpstream ==
  \A g \in Fut :
    ( /\ kind[g] = "FlatMap"
      /\ state[g] # StatePending
      /\ state[up[g]] # StatePending )
    => /\ Succeeds(up[g]) =>
            /\ xforms[g] = 1
            /\ bound[g] # NoFut
            /\ Adopts(g, bound[g])
       /\ Fails(up[g]) =>
            /\ state[g] = StateError
            /\ err[g] = err[up[g]]
            /\ xforms[g] = 0

\* ------------------------------------------------------------------ C13
\* C13: once f and the future derived from it by FlatMapErr are both
\* terminal: if f fails, bind was called once and the derived future has
\* the outcome of the future bind returned, which is terminal; if f
\* resolves to a value, bind was not called and the derived future is Done
\* with the zero value.
C13_FlatMapErrFollowsUpstream ==
  \A g \in Fut :
    ( /\ kind[g] = "FlatMapErr"
      /\ state[g] # StatePending
      /\ state[up[g]] # StatePending )
    => /\ Fails(up[g]) =>
            /\ xforms[g] = 1
            /\ bound[g] # NoFut
            /\ Adopts(g, bound[g])
       /\ Succeeds(up[g]) =>
            /\ state[g] = StateDone
            /\ val[g] = Zero
            /\ xforms[g] = 0

\* ------------------------------------------------------------------ C14
\* C14: IterPar with the background context: what it returns is either no
\* error and a sequence as long as the array whose element i is fn of item
\* i of the array, every call of fn having succeeded, or no values and the
\* error of an item on which fn failed; and it does return once fn has
\* succeeded on every item or has failed on one.
C14_IterParMapsInOrder ==
  /\ []( (apc = "ret" /\ actx = Background) =>
           IF ares.isnil
             THEN \E i \in DOMAIN afuts : Failing(i) /\ ares.e = err[afuts[i]]
             ELSE /\ ares.e = Nil
                  /\ Len(ares.vals) = Len(afuts)
                  /\ \A i \in DOMAIN afuts :
                       /\ state[afuts[i]] = StateDone
                       /\ ares.vals[i] = Fn(iarr[i]) )
  /\ ( ( /\ apc = "loop"
         /\ actx = Background
         /\ \/ \A i \in DOMAIN afuts : state[afuts[i]] = StateDone
            \/ \E i \in DOMAIN afuts : Failing(i) )
       ~> apc = "ret" )

\* IterPar has returned the results for two different items, the greater
\* item first
C14_Witness ==
  /\ apc = "ret"
  /\ actx = Background
  /\ ~ares.isnil
  /\ Len(afuts) = 2
  /\ kind[afuts[1]] = "Iter"
  /\ iarr[1] > iarr[2]
  /\ ares.vals = <<Fn(iarr[1]), Fn(iarr[2])>>

\* ------------------------------------------------------------------ C15
\* C15: a call of GetOr, GetElse or MustGet that is over made one TryGet on
\* its receiver with its context and is determined by what that returned:
\* with (v, nil) it returned v and the fallback function was not called;
\* with an error GetOr returned the fallback value, GetElse returned what
\* its fallback function returned, called once, and MustGet did not return
\* but panicked with the error.
C15_ConvenienceReads ==
  \A t \in Readers :
    /\ conv[t].fb <= 1
    /\ conv[t].pc \in {"ret", "panic"} =>
         /\ tg[t].pc = "ret"
         /\ tg[t].f = conv[t].f
         /\ tg[t].ctx = conv[t].ctx
         /\ tg[t].e = Nil =>
              /\ conv[t].pc = "ret"
              /\ conv[t].v = tg[t].v
              /\ conv[t].fb = 0
         /\ (tg[t].e # Nil /\ conv[t].w = "GetOr") =>
              /\ conv[t].pc = "ret"
              /\ conv[t].v = Fallback
         /\ (tg[t].e # Nil /\ conv[t].w = "GetElse") =>
              /\ conv[t].pc = "ret"
              /\ conv[t].v = ElseVal
              /\ conv[t].fb = 1
         /\ (tg[t].e # Nil /\ conv[t].w = "MustGet") =>
              /\ conv[t].pc = "panic"
              /\ conv[t].e = tg[t].e

\* on one future built by New, MustGet has panicked with the cancellation
\* error and GetElse has returned the task's value
C15_Witness ==
  \E t1 \in Readers, t2 \in Readers :
    /\ conv[t1].w = "MustGet" /\ conv[t1].pc = "panic"
    /\ conv[t1].e = Canceled
    /\ conv[t2].w = "GetElse" /\ conv[t2].pc = "ret"
    /\ conv[t2].f = conv[t1].f
    /\ kind[conv[t2].f] = "New"
    /\ conv[t2].v = ValOf(conv[t2].f)

\* ------------------------------------------------------------------ C16
\* C16: the outcome is stored before it can be seen.  In every state, a
\* future whose state field is Done holds the result of its task in its
\* value field, a future whose state field is Error holds the error of its
\* task in its error field (an error that is not nil; a future built by Err
\* has no task and holds what Err was given), and a goroutine that is at or
\* past its send has written the state; and a TryGet call that returned
\* through the checks of lines 60-66 or through the receive returned the
\* outcome of the task.
C16_OutcomeFixedBeforeSeen ==
  /\ \A f \in Fut :
       /\ state[f] = StateDone => Expected(f) = Outcome(val[f], Nil)
       /\ state[f] = StateError => Expected(f) = Outcome(Zero, err[f])
       /\ (state[f] = StateError /\ tpc[f] # "none") => err[f] # Nil
       /\ tpc[f] \in {"send", "exit"} => state[f] # StatePending
  /\ \A t \in Threads :
       (tg[t].pc = "ret" /\ tg[t].via \in {"fast", "chan"}) =>
         Got(t) = Expected(tg[t].f)

\* a call that found the future of a task Pending at line 60 has returned
\* the task's error through the check of line 63
C16_Witness ==
  \E t \in Readers :
    /\ tg[t].pc = "ret"
    /\ tg[t].via = "fast"
    /\ ~tg[t].term
    /\ kind[tg[t].f] = "New"
    /\ Got(t) = Outcome(Zero, ErrOf(tg[t].f))

\* ------------------------------------------------------------------ C17
\* C17: after All, called with the background context, has returned an
\* error, every goroutine it started eventually stops waiting and
\* terminates, also when the future it reads never completes.
C17_ReadersAbandoned ==
  (apc = "ret" /\ ares.isnil /\ actx = Background)
    ~> (\A i \in DOMAIN afuts : arpc[i] = "exit")

\* ------------------------------------------------------------------ C18
\* C18: a future derived by Map, MapErr, FlatMap or FlatMapErr is never
\* terminal while its upstream future is Pending, and its error is never
\* the cancellation error.
C18_CombinatorReadsToCompletion ==
  \A g \in Fut :
    (kind[g] \in Combinators /\ state[g] # StatePending) =>
      /\ state[up[g]] # StatePending
      /\ err[g] # Canceled

\* ------------------------------------------------------------------ C19
\* C19: All with the background context returns once every input future is
\* terminal, whatever the list, lists that hold a future twice included.
C19_AllReturns ==
  ( /\ apc = "loop"
    /\ actx = Background
    /\ \A i \in DOMAIN afuts : state[afuts[i]] # StatePending )
  ~> apc = "ret"

\* ------------------------------------------------------------------ C20
\* the calls of TryGet on f that returned through the receive of line 70
ChanReturns(f) ==
  {t \in Threads : tg[t].f = f /\ tg[t].pc = "ret" /\ tg[t].via = "chan"}

\* C20: the goroutine of a future sends once, after it has written the
\* state: at most one receive on the channel completes and at most one
\* call of TryGet returns through the receive; the goroutine has terminated
\* exactly when a receive has completed, and it leaves its send only in a
\* step in which a call of TryGet on the future receives, so that it stays
\* at the send for ever when no call is or will be in the select.
C20_OneSendOneReceiver ==
  /\ [](\A f \in Fut :
          /\ recvs[f] <= 1
          /\ Cardinality(ChanReturns(f)) <= 1
          /\ tpc[f] = "exit" <=> recvs[f] = 1
          /\ tpc[f] \in {"send", "exit"} => state[f] # StatePending)
  /\ [][\A f \in Fut :
          (tpc[f] = "send" /\ tpc'[f] # "send") =>
            /\ tpc'[f] = "exit"
            /\ \E t \in Threads :
                 /\ tg[t].pc = "select" /\ tg[t].f = f
                 /\ tg'[t].pc = "ret" /\ tg'[t].via = "chan"]_vars

\* the goroutine of a future is at its send and every call of TryGet has
\* returned: one gave up on cancellation, the other arrived after the state
\* was written
C20_Witness ==
  \E f \in Fut, t1 \in Readers, t2 \in Readers :
    /\ tpc[f] = "send"
    /\ \A t \in Readers : tg[t].pc = "ret" /\ tg[t].f = f
    /\ tg[t1].via = "ctx"
    /\ tg[t2].via = "fast" /\ tg[t2].term

====
